---- MODULE Spec2Model ----
(***************************************************************************)
(* inky-piwigo.py: one run of the script logs on to a Piwigo site, fetches *)
(* the URLs of a tag, picks one that was not shown recently, appends it to *)
(* history.txt, downloads it into img/ and shows it.  The working          *)
(* directory (pwg_cookie, history.txt, img/) persists between runs.        *)
(*                                                                         *)
(* Files are sequences of characters, URLs are sequences of characters.    *)
(* The HTTP service is the environment: every response (status code,       *)
(* cookies, body, JSON payload) is a nondeterministic input.  Transport    *)
(* exceptions (no connection) are not modelled.                            *)
(***************************************************************************)
EXTENDS Integers, Sequences, FiniteSets, TLC

VARIABLES
    cookieFile,      \* content of pwg_cookie, or NoCookieFile
    historyFile,     \* history.txt: whether it exists, and its characters
    img,             \* img/ : whether it exists, and file name -> bytes or NoFile
    pc,              \* position of the running script
    args,            \* argparse namespace: recent_filter, tag_name
    urls,            \* list returned by session.tagUrls
    recent_urls,     \* list read back from history.txt
    url,             \* the URL chosen by random.choice
    fname,           \* path returned by download_url (file name inside img/)
    err,             \* exception that ended the run, or NoError
    reqs,            \* HTTP requests issued by this run: <<method, status>>
    logon_response,  \* self.logon_response: status_code and cookies
    jar,             \* the cookies the last read of self.cookies returned
    pre,             \* the working directory as the run found it
    runs             \* number of runs started

vars == <<cookieFile, historyFile, img, pc, args, urls, recent_urls, url,
          fname, err, reqs, logon_response, jar, pre, runs>>

\* ------------------------------------------------------------------ bounds

MaxRuns == 3
MaxFilter == 2

\* ------------------------------------------------------------- input sets

NoFile == "<absent>"
NoCookieFile == <<>>
NoHistoryFile == [exists |-> FALSE, text |-> <<>>]
NoName == <<>>
NoError == "<none>"
NoUrl == <<>>
NoResponse == [status_code |-> 0, cookies |-> NoFile]

UrlA == <<"s", "/", "a">>
UrlB == <<"s", "/", "b">>
UrlC == <<"t", "/", "a">>
URLS == {UrlA, UrlB, UrlC}

\* image lists the tag query can return
UrlLists ==
    {<<>>, <<UrlA>>, <<UrlB>>, <<UrlA, UrlB>>, <<UrlB, UrlC>>, <<UrlA, UrlB, UrlC>>}

StatusCodes == {200, 500}
CookieJars == {"jar1", "jar2"}
Usernames == {"me", "guest"}
ErrorPage == "error-page"
ImageBytes == {"jpeg1", "jpeg2"}
RecentFilters == (0 - 1) .. MaxFilter
TagNames == {"None", "tag"}

\* -------------------------------------------------------- Python helpers

Range(s) == {s[i] : i \in 1 .. Len(s)}

Whitespace == {" ", "\n", "\t"}

\* str.split(): maximal runs of non-whitespace characters
RECURSIVE SplitWs(_, _, _)
SplitWs(s, cur, acc) ==
    IF s = <<>> THEN (IF cur = <<>> THEN acc ELSE Append(acc, cur))
    ELSE IF Head(s) \in Whitespace
         THEN SplitWs(Tail(s), <<>>, IF cur = <<>> THEN acc ELSE Append(acc, cur))
         ELSE SplitWs(Tail(s), Append(cur, Head(s)), acc)

PySplit(s) == SplitWs(s, <<>>, <<>>)

\* str.split(sep): pieces between separators, empty pieces kept
RECURSIVE SplitSep(_, _, _, _)
SplitSep(s, sep, cur, acc) ==
    IF s = <<>> THEN Append(acc, cur)
    ELSE IF Head(s) = sep
         THEN SplitSep(Tail(s), sep, <<>>, Append(acc, cur))
         ELSE SplitSep(Tail(s), sep, Append(cur, Head(s)), acc)

PySplitOn(s, sep) == SplitSep(s, sep, <<>>, <<>>)

\* lst[start:] with Python's handling of a negative or out-of-range start
PySliceFrom(lst, start) ==
    LET n == Len(lst)
        s0 == IF start < 0 THEN start + n ELSE start
        s1 == IF s0 < 0 THEN 0 ELSE IF s0 > n THEN n ELSE s0
    IN  SubSeq(lst, s1 + 1, n)

\* lst[-1]
PyLast(lst) == lst[Len(lst)]

\* mutant: the file opened with "w" instead of "a"
WriteText(file, text) == [exists |-> TRUE, text |-> text]

\* mutant: the file opened with "r+": a missing file is not created
AppendTextExisting(file, text) ==
    IF file.exists THEN [exists |-> TRUE, text |-> file.text \o text] ELSE file

\* open(path, "a").write(text): the file is created when absent
AppendText(file, text) == [exists |-> TRUE, text |-> file.text \o text]

\* mutant: the line terminator is left out
HistoryLineNoNewline(u) == u

\* f"{url}\n"
HistoryLine(u) == u \o <<"\n">>

\* mutant: the file is named by the first path segment
FileNameOfFirst(u) == PySplitOn(u, "/")[1]

\* url.split("/")[-1]
FileNameOf(u) == PyLast(PySplitOn(u, "/"))

FileNames == {FileNameOf(u) : u \in URLS}

NoImgDir == [exists |-> FALSE, files |-> [f \in FileNames |-> NoFile]]

\* ------------------------------------------------------------------- Init

Init ==
    /\ cookieFile = NoCookieFile
    /\ historyFile = NoHistoryFile
    /\ img = NoImgDir
    /\ pc = "start"
    /\ args = [recent_filter |-> 0, tag_name |-> "None"]
    /\ urls = <<>>
    /\ recent_urls = <<>>
    /\ url = NoUrl
    /\ fname = NoName
    /\ err = NoError
    /\ reqs = <<>>
    /\ logon_response = NoResponse
    /\ jar = NoFile
    /\ pre = [cookieFile |-> NoCookieFile, historyFile |-> NoHistoryFile,
              img |-> NoImgDir]
    /\ runs = 0

\* pickle.dump / pickle.load of the cookie jar
Pickle(cj) == <<"pickle", cj>>
Unpickle(file) == file[2]

\* ------------------------------------------------------- PiwigoSession

\* mutant: the status code of the login response is not looked at
LogOnAcceptsAny(status) == TRUE

\* the status codes logOn accepts (line 71)
LogOnAccepts(status) == status = 200

\* logOn(): outcome of the login request answered by resp
LogOn(cf, resp) ==
    [raised |-> ~LogOnAccepts(resp.status_code),
     cookieFile |-> IF LogOnAccepts(resp.status_code) THEN Pickle(resp.cookies) ELSE cf,
     reqs |-> << <<"pwg.session.login", resp.status_code>> >>,
     logon_response |-> resp]

\* mutant: logs on whether or not pwg_cookie exists
CookiesAlwaysLogOn(cf, lr, resp) == LogOn(cf, resp)

\* the cookies property: logs on first when pwg_cookie does not exist
Cookies(cf, lr, resp) ==
    IF cf = NoCookieFile
    THEN LogOn(cf, resp)
    ELSE [raised |-> FALSE, cookieFile |-> cf, reqs |-> <<>>, logon_response |-> lr]

LoginResponses == [status_code : StatusCodes, cookies : CookieJars]

\* the exception leaves the script: the run is over
Raise(e) == pc' = "failed" /\ err' = e

\* ------------------------------------------------------------- __main__

\* mutant: the check of recent_filter is missing
InvalidFilterNever(rf) == FALSE

\* line 149: the recent_filter values the script refuses
InvalidFilter(rf) == rf < 0

\* lines 129-154: parse the arguments, check recent_filter, build the session
ParseArgs ==
    /\ pc \in {"start", "done", "failed"}
    /\ runs < MaxRuns
    /\ runs' = runs + 1
    /\ \E rf \in RecentFilters, tag \in TagNames :
         /\ args' = [recent_filter |-> rf, tag_name |-> tag]
         /\ IF InvalidFilter(rf)
            THEN Raise("ValueError")
            ELSE pc' = "loggedOn" /\ err' = NoError
    /\ pre' = [cookieFile |-> cookieFile, historyFile |-> historyFile, img |-> img]
    /\ urls' = <<>>
    /\ recent_urls' = <<>>
    /\ url' = NoUrl
    /\ fname' = NoName
    /\ reqs' = <<>>
    /\ logon_response' = NoResponse
    /\ jar' = NoFile
    /\ UNCHANGED <<cookieFile, historyFile, img>>

\* line 156: session.loggedOn (lines 41-54), reading self.cookies (79-86)
LoggedOn ==
    /\ pc = "loggedOn"
    /\ \E resp \in LoginResponses, who \in Usernames :
         LET c == Cookies(cookieFile, logon_response, resp) IN
         /\ cookieFile' = c.cookieFile
         /\ logon_response' = c.logon_response
         /\ jar' = IF c.raised THEN jar ELSE Unpickle(c.cookieFile)
         /\ IF c.raised
            THEN /\ reqs' = reqs \o c.reqs
                 /\ Raise("couldn't logon")
            ELSE /\ reqs' = reqs \o c.reqs \o << <<"pwg.session.getStatus", 200>> >>
                 /\ pc' = IF who = "me" THEN "tagUrls" ELSE "logOn"
                 /\ err' = err
    /\ UNCHANGED <<historyFile, img, args, urls, recent_urls, url, fname, pre, runs>>

\* line 157: session.logOn() (lines 56-77)
MainLogOn ==
    /\ pc = "logOn"
    /\ \E resp \in LoginResponses :
         LET c == LogOn(cookieFile, resp) IN
         /\ cookieFile' = c.cookieFile
         /\ logon_response' = c.logon_response
         /\ reqs' = reqs \o c.reqs
         /\ IF c.raised
            THEN Raise("couldn't logon")
            ELSE pc' = "tagUrls" /\ err' = err
    /\ UNCHANGED <<historyFile, img, args, urls, recent_urls, url, fname, jar, pre,
                   runs>>

\* mutant: the status code of the tag query is not looked at
TagUrlsAcceptsAny(status) == TRUE

\* the status codes tagUrls accepts (line 102)
TagUrlsAccepts(status) == status = 200

\* line 160: session.tagUrls (lines 88-109)
TagUrls ==
    /\ pc = "tagUrls"
    /\ \E resp \in LoginResponses, status \in StatusCodes, images \in UrlLists :
         LET c == Cookies(cookieFile, logon_response, resp) IN
         /\ cookieFile' = c.cookieFile
         /\ logon_response' = c.logon_response
         /\ jar' = IF c.raised THEN jar ELSE Unpickle(c.cookieFile)
         /\ IF c.raised
            THEN /\ reqs' = reqs \o c.reqs
                 /\ urls' = urls
                 /\ Raise("couldn't logon")
            ELSE /\ reqs' = reqs \o c.reqs \o << <<"pwg.tags.getImages", status>> >>
                 /\ IF TagUrlsAccepts(status)
                    THEN urls' = images /\ pc' = "select" /\ err' = err
                    ELSE urls' = urls /\ Raise("couldn't fetch image urls")
    /\ UNCHANGED <<historyFile, img, args, recent_urls, url, fname, pre, runs>>

\* mutant: the first recent_filter tokens are taken instead of the last
ReadRecentHead(file, recent_filter) ==
    IF ~file.exists THEN <<>>
    ELSE LET tokens == PySplit(file.text)
         IN  SubSeq(tokens, 1, IF recent_filter < Len(tokens)
                               THEN recent_filter ELSE Len(tokens))

\* lines 164-167: the last recent_filter tokens of history.txt
ReadRecent(file, recent_filter) ==
    IF ~file.exists THEN <<>> ELSE PySliceFrom(PySplit(file.text), 0 - recent_filter)

\* mutant: the recent URLs are not taken out
NotRecentUrlsAll(us, recent) == Range(us)

\* line 168
NotRecentUrls(us, recent) == Range(us) \ Range(recent)

\* mutant: no fallback to the full list
CandidateUrlsNoFallback(us, recent) == NotRecentUrls(us, recent)

\* line 169: the URLs random.choice draws from
CandidateUrls(us, recent) ==
    IF NotRecentUrls(us, recent) # {} THEN NotRecentUrls(us, recent) ELSE Range(us)

\* mutant: an empty list does not stop the run; no URL is chosen
SelectEmptyGoesOn ==
    /\ pc = "select"
    /\ recent_urls' = ReadRecent(historyFile, args.recent_filter)
    /\ IF CandidateUrls(urls, recent_urls') = {}
       THEN url' = url /\ pc' = "record" /\ err' = err
       ELSE /\ url' \in CandidateUrls(urls, recent_urls')
            /\ pc' = "record"
            /\ err' = err
    /\ UNCHANGED <<cookieFile, historyFile, img, args, urls, fname, reqs,
                   logon_response, jar, pre, runs>>

\* lines 164-170: filter by history and choose
Select ==
    /\ pc = "select"
    /\ recent_urls' = ReadRecent(historyFile, args.recent_filter)
    /\ IF CandidateUrls(urls, recent_urls') = {}
       THEN url' = url /\ Raise("IndexError")
       ELSE /\ url' \in CandidateUrls(urls, recent_urls')
            /\ pc' = "record"
            /\ err' = err
    /\ UNCHANGED <<cookieFile, historyFile, img, args, urls, fname, reqs,
                   logon_response, jar, pre, runs>>

\* mutant: the URL is not written to history.txt before the download
RecordSkipped ==
    /\ pc = "record"
    /\ pc' = "download"
    /\ UNCHANGED <<cookieFile, historyFile, img, args, urls, recent_urls, url, fname,
                   err, reqs, logon_response, jar, pre, runs>>

\* lines 173-174: append the URL to history.txt
Record ==
    /\ pc = "record"
    /\ historyFile' = AppendText(historyFile, HistoryLine(url))
    /\ pc' = "download"
    /\ UNCHANGED <<cookieFile, img, args, urls, recent_urls, url, fname, err, reqs,
                   logon_response, jar, pre, runs>>

\* os.mkdir("img") when the directory is missing (lines 116-117)
MkDir(dir) == [dir EXCEPT !.exists = TRUE]

\* mutant: the file is fetched without looking into img/
MustFetchAlways(dir, name) == TRUE

\* line 119: does download_url fetch the file?
MustFetch(dir, name) == MkDir(dir).files[name] = NoFile

\* the body the site sends with a status
Bodies(status) == IF status = 200 THEN ImageBytes ELSE {ErrorPage}

\* line 176: session.download_url(url) (lines 111-125)
Download ==
    /\ pc = "download"
    /\ LET name == FileNameOf(url) IN
       IF ~MustFetch(img, name)
       THEN /\ img' = MkDir(img)
            /\ fname' = name
            /\ pc' = "render"
            /\ UNCHANGED <<cookieFile, logon_response, jar, reqs, err>>
       ELSE \E resp \in LoginResponses, status \in StatusCodes :
            \E content \in Bodies(status) :
              LET c == Cookies(cookieFile, logon_response, resp) IN
              /\ cookieFile' = c.cookieFile
              /\ logon_response' = c.logon_response
              /\ jar' = IF c.raised THEN jar ELSE Unpickle(c.cookieFile)
              /\ IF c.raised
                 THEN /\ reqs' = reqs \o c.reqs
                      /\ img' = MkDir(img)
                      /\ fname' = fname
                      /\ Raise("couldn't logon")
                 ELSE /\ reqs' = reqs \o c.reqs \o << <<"GET", status>> >>
                      /\ img' = [MkDir(img) EXCEPT !.files[name] = content]
                      /\ fname' = name
                      /\ pc' = "render"
                      /\ err' = err
    /\ UNCHANGED <<historyFile, args, urls, recent_urls, url, pre, runs>>

\* Image.open accepts the bytes (line 178)
IsImage(bytes) == bytes \in ImageBytes

\* lines 178-189: open, pad and show the image; the preview or the display
\* may fail
Render ==
    /\ pc = "render"
    /\ \E shown \in BOOLEAN :
         IF IsImage(img.files[fname]) /\ shown
         THEN pc' = "done" /\ err' = err
         ELSE Raise("render failed")
    /\ UNCHANGED <<cookieFile, historyFile, img, args, urls, recent_urls, url, fname,
                   reqs, logon_response, jar, pre, runs>>

Next ==
    \/ ParseArgs
    \/ LoggedOn
    \/ MainLogOn
    \/ TagUrls
    \/ Select
    \/ Record
    \/ Download
    \/ Render

Spec == Init /\ [][Next]_vars

\* ----------------------------------------------------------- properties

IsPrefix(a, b) == Len(a) <= Len(b) /\ SubSeq(b, 1, Len(a)) = a

\* the last n elements of a list (all of them when it has fewer), n >= 0
LastN(lst, n) ==
    IF n >= Len(lst) THEN lst ELSE [i \in 1 .. n |-> lst[Len(lst) - n + i]]

\* the recent set of the run: the last recent_filter tokens of the history.txt
\* the run found
RecentSet ==
    IF pre.historyFile.exists
    THEN Range(LastN(PySplit(pre.historyFile.text), args.recent_filter))
    ELSE {}

\* the lines of a text file, without their terminators
TextLines(text) ==
    LET p == PySplitOn(text, "\n")
    IN  IF PyLast(p) = <<>> THEN SubSeq(p, 1, Len(p) - 1) ELSE p

HistoryLines(file) == IF file.exists THEN TextLines(file.text) ELSE <<>>

GetCount(rs) == Cardinality({i \in DOMAIN rs : rs[i][1] = "GET"})

\* C1: whenever a run has chosen a URL and some candidate is not in the
\* recent set (the last recent_filter tokens of history.txt), the chosen URL
\* is a candidate outside the recent set; with candidates A, B, C, history
\* A, B and recent_filter 2 the chosen URL is C.
C1_NeverRecent ==
    (url # NoUrl /\ Range(urls) \ RecentSet # {}) =>
        /\ url \in Range(urls) \ RecentSet
        /\ (/\ Range(urls) = {UrlA, UrlB, UrlC}
            /\ HistoryLines(pre.historyFile) = <<UrlA, UrlB>>
            /\ args.recent_filter = 2) => url = UrlC

C1_Witness ==
    /\ pc = "record"
    /\ urls = <<UrlA, UrlB, UrlC>>
    /\ PySplit(historyFile.text) = <<UrlA, UrlB>>
    /\ args.recent_filter = 2
    /\ url = UrlC

\* C2: once selection has run on a non-empty URL list, a URL has been chosen
\* and it is one of the list, also when every URL of the list is recent.
C2_Total ==
    (urls # <<>> /\ pc # "select") =>
        /\ url \in Range(urls)
        /\ err # "IndexError"

C2_Witness ==
    /\ pc = "record"
    /\ urls = <<UrlA>>
    /\ HistoryLines(historyFile) = <<UrlA>>
    /\ args.recent_filter = 1
    /\ recent_urls = <<UrlA>>
    /\ url = UrlA

\* C3: with recent_filter = 0 the list read back from history.txt is empty
\* and no URL of the tag is excluded from the choice.
C3_ZeroFilterEmpty ==
    (args.recent_filter = 0 /\ pc = "record") =>
        /\ recent_urls = <<>>
        /\ CandidateUrls(urls, recent_urls) = Range(urls)

\* C4: history.txt is append-only: every step leaves the old content as a
\* prefix of the new one and never removes the file; the step that records
\* adds exactly one line, equal to the chosen URL, after the lines already
\* there; no other step changes the file.
C4_AppendOnly ==
    [][/\ historyFile.exists => historyFile'.exists
       /\ IsPrefix(historyFile.text, historyFile'.text)
       /\ IF pc = "record"
          THEN HistoryLines(historyFile') = Append(HistoryLines(historyFile), url)
          ELSE historyFile' = historyFile]_vars

C4_Witness ==
    /\ pc = "download"
    /\ Len(HistoryLines(pre.historyFile)) = 2
    /\ HistoryLines(historyFile) = Append(HistoryLines(pre.historyFile), url)

\* C5: whenever rendering is reached (about to render, rendered, or failed in
\* rendering) the run has added exactly one line to history.txt and that
\* line, the last one, is the chosen URL.
C5_RecordedBeforeRender ==
    (pc \in {"render", "done"} \/ (pc = "failed" /\ err = "render failed")) =>
        HistoryLines(historyFile) = Append(HistoryLines(pre.historyFile), url)

C5_Witness ==
    /\ pc = "failed"
    /\ err = "render failed"
    /\ url # NoUrl
    /\ PyLast(HistoryLines(historyFile)) = url

\* C6: a download made while img/ holds a file named by the URL's last path
\* segment issues no request and leaves img/ as it is; a download made while
\* it does not issues exactly one GET and leaves the file there, so that a
\* second download of the URL issues none.
C6_NoRefetch ==
    [][pc = "download" =>
         LET name == FileNameOf(url)
             present == img.exists /\ img.files[name] # NoFile
         IN  /\ pc' = "render"
             /\ img'.files[name] # NoFile
             /\ present => (reqs' = reqs /\ img' = img)
             /\ ~present => GetCount(reqs') = GetCount(reqs) + 1]_vars

C6_Witness ==
    /\ pc = "render"
    /\ pre.img.files[fname] # NoFile
    /\ img = pre.img
    /\ GetCount(reqs) = 0

\* C7: an image GET answered with a status other than 200 ends the run with
\* a download error; rendering is not reached.
C7_DownloadError ==
    \A i \in DOMAIN reqs :
        (reqs[i][1] = "GET" /\ reqs[i][2] # 200) =>
            (pc = "failed" /\ err = "DownloadError")

\* C8 as stated: evaluating loggedOn leaves pwg_cookie, history.txt and img/
\* unchanged and issues the status request and nothing else.
C8_ProbeNoSideEffect ==
    [][pc = "loggedOn" =>
         /\ cookieFile' = cookieFile
         /\ historyFile' = historyFile
         /\ img' = img
         /\ Len(reqs') = Len(reqs) + 1
         /\ PyLast(reqs')[1] = "pwg.session.getStatus"]_vars

\* C8 amended: evaluating loggedOn never changes history.txt or img/; when
\* pwg_cookie exists it is left unchanged and the status request is the only
\* request; when it does not exist a login request comes first: answered 200,
\* the cookie file is written and the status request follows; answered
\* otherwise, the run fails with pwg_cookie still absent and no status request.
C8_ProbeAmended ==
    [][pc = "loggedOn" =>
         /\ historyFile' = historyFile
         /\ img' = img
         /\ cookieFile # NoCookieFile =>
              /\ cookieFile' = cookieFile
              /\ reqs' = Append(reqs, <<"pwg.session.getStatus", 200>>)
         /\ cookieFile = NoCookieFile =>
              LET st == logon_response'.status_code IN
              IF st = 200
              THEN /\ cookieFile' = Pickle(logon_response'.cookies)
                   /\ reqs' = reqs \o << <<"pwg.session.login", st>>,
                                         <<"pwg.session.getStatus", 200>> >>
              ELSE /\ cookieFile' = NoCookieFile
                   /\ reqs' = Append(reqs, <<"pwg.session.login", st>>)
                   /\ pc' = "failed"]_vars

C8_Witness ==
    /\ pc \in {"tagUrls", "logOn"}
    /\ pre.cookieFile # NoCookieFile
    /\ cookieFile = pre.cookieFile
    /\ reqs = << <<"pwg.session.getStatus", 200>> >>

\* C9: a run with a negative recent_filter has failed with ValueError, has
\* issued no request and has left pwg_cookie, history.txt and img/ as found.
C9_NegativeRejected ==
    args.recent_filter < 0 =>
        /\ pc = "failed"
        /\ err = "ValueError"
        /\ reqs = <<>>
        /\ cookieFile = pre.cookieFile
        /\ historyFile = pre.historyFile
        /\ img = pre.img

C9_Witness ==
    /\ args.recent_filter = 0 - 1
    /\ pc = "failed"
    /\ err = "ValueError"
    /\ reqs = <<>>
    /\ historyFile.exists
    /\ cookieFile # NoCookieFile

\* a step that issues a login request (always the first request of the step)
LoginIssued ==
    /\ Len(reqs') > Len(reqs)
    /\ reqs'[Len(reqs) + 1][1] = "pwg.session.login"

\* C10: a login answered with a status other than 200 raises and leaves
\* pwg_cookie as it was (absent or not); a login answered 200 writes the
\* cookies of the response to pwg_cookie, replacing what was there.
C10_LogOn ==
    [][LoginIssued =>
         LET st == reqs'[Len(reqs) + 1][2] IN
         /\ st = logon_response'.status_code
         /\ IF st # 200
            THEN /\ pc' = "failed"
                 /\ err' = "couldn't logon"
                 /\ cookieFile' = cookieFile
            ELSE /\ cookieFile' = Pickle(logon_response'.cookies)
                 /\ err' # "couldn't logon"]_vars

C10_Witness ==
    /\ pc = "tagUrls"
    /\ pre.cookieFile # NoCookieFile
    /\ cookieFile # pre.cookieFile
    /\ cookieFile = Pickle(logon_response.cookies)

\* the URLs recorded by the last recent_filter recordings before this run
ShownLately == Range(LastN(HistoryLines(pre.historyFile), args.recent_filter))

\* the run has recorded its URL in history.txt
HasRecorded == Len(HistoryLines(historyFile)) > Len(HistoryLines(pre.historyFile))

TagQueryAnswered ==
    \E i \in DOMAIN reqs : reqs[i] = <<"pwg.tags.getImages", 200>>

\* C12: when the tag query returns no image the run fails at the selection
\* (random.choice of an empty list): no URL is chosen, history.txt and img/
\* are as the run found them, no image is requested and nothing is rendered.
C12_EmptyCandidates ==
    (TagQueryAnswered /\ urls = <<>>) =>
        /\ pc \in {"select", "failed"}
        /\ pc = "failed" => err = "IndexError"
        /\ url = NoUrl
        /\ fname = NoName
        /\ historyFile = pre.historyFile
        /\ img = pre.img
        /\ GetCount(reqs) = 0

C12_Witness ==
    /\ TagQueryAnswered
    /\ urls = <<>>
    /\ pc = "failed"
    /\ err = "IndexError"
    /\ historyFile.exists

\* the tag requests of this run that were answered with another status than 200
FailedTagQueries ==
    {i \in DOMAIN reqs : reqs[i][1] = "pwg.tags.getImages" /\ reqs[i][2] # 200}

\* C13: a tag query answered with a status other than 200 ends the run with
\* the fetch error: it is the run's last request (no retry), no URL list is
\* kept, no URL is chosen, history.txt and img/ are as the run found them and
\* no image is requested.
C13_FetchError ==
    FailedTagQueries # {} =>
        /\ pc = "failed"
        /\ err = "couldn't fetch image urls"
        /\ FailedTagQueries = {Len(reqs)}
        /\ urls = <<>>
        /\ url = NoUrl
        /\ fname = NoName
        /\ historyFile = pre.historyFile
        /\ img = pre.img
        /\ GetCount(reqs) = 0

C13_Witness ==
    /\ FailedTagQueries # {}
    /\ pc = "failed"
    /\ err = "couldn't fetch image urls"
    /\ historyFile.exists
    /\ img.exists

\* C14: in a run that finds no history.txt and gets a non-empty URL list, the
\* selection does not fail: the recent list is empty, the URL is drawn from
\* the whole list, and once recorded history.txt exists and holds exactly
\* that URL and its line terminator.
C14_NoHistoryFile ==
    (~pre.historyFile.exists /\ urls # <<>> /\ pc # "select") =>
        /\ recent_urls = <<>>
        /\ CandidateUrls(urls, recent_urls) = Range(urls)
        /\ url \in Range(urls)
        /\ pc = "failed" => err \notin {"IndexError", "FileNotFoundError"}
        /\ IF pc = "record"
           THEN ~historyFile.exists
           ELSE /\ historyFile.exists
                /\ historyFile.text = url \o <<"\n">>
                /\ HistoryLines(historyFile) = <<url>>

C14_Witness ==
    /\ ~pre.historyFile.exists
    /\ pc = "download"
    /\ urls = <<UrlA, UrlB>>
    /\ url = UrlB
    /\ HistoryLines(historyFile) = <<UrlB>>

\* C15: a run started without --tag_name (args.tag_name is None) is refused
\* when the arguments are parsed: it has failed without issuing a request
\* and with pwg_cookie, history.txt and img/ as it found them.
C15_TagRequired ==
    (runs > 0 /\ args.tag_name = "None") =>
        /\ pc = "failed"
        /\ reqs = <<>>
        /\ cookieFile = pre.cookieFile
        /\ historyFile = pre.historyFile
        /\ img = pre.img

\* the step about to be taken reads self.cookies: loggedOn, tagUrls, and
\* download_url when img/ does not hold the file
ReadsCookies ==
    \/ pc \in {"loggedOn", "tagUrls"}
    \/ pc = "download" /\ img.files[PyLast(PySplitOn(url, "/"))] = NoFile

\* C16: a read of self.cookies issues a login request exactly when pwg_cookie
\* does not exist; an existing pwg_cookie is not rewritten; and unless the
\* login raises, pwg_cookie exists afterwards and the cookies returned are
\* the ones it holds.
C16_LazyCredential ==
    [][ReadsCookies =>
         /\ LoginIssued <=> cookieFile = NoCookieFile
         /\ cookieFile # NoCookieFile => cookieFile' = cookieFile
         /\ ~(pc' = "failed" /\ err' = "couldn't logon") =>
              /\ cookieFile' # NoCookieFile
              /\ Pickle(jar') = cookieFile']_vars

C16_Witness ==
    /\ pc \in {"tagUrls", "logOn"}
    /\ pre.cookieFile = NoCookieFile
    /\ reqs = << <<"pwg.session.login", 200>>, <<"pwg.session.getStatus", 200>> >>
    /\ cookieFile = Pickle(jar)

LastSegment(u) == PyLast(PySplitOn(u, "/"))

\* the URLs earlier runs recorded; each of those runs went on to download
\* its URL before it ended
ShownBefore == Range(HistoryLines(pre.historyFile))

\* C17: when a run downloads a URL it never showed before while another URL
\* with the same last path segment was shown (and so downloaded) before, the
\* download issues no request (the tag query stays the run's last request),
\* returns the path named by that segment, and the file there is the one the
\* earlier download left.
C17_SharedCacheEntry ==
    \A v \in URLS :
        (/\ fname # NoName
         /\ url \notin ShownBefore
         /\ v \in ShownBefore
         /\ v # url
         /\ LastSegment(v) = LastSegment(url)) =>
            /\ PyLast(reqs)[1] = "pwg.tags.getImages"
            /\ fname = LastSegment(v)
            /\ img.files[fname] # NoFile
            /\ img = pre.img

C17_Witness ==
    /\ pc = "render"
    /\ url = UrlC
    /\ UrlA \in ShownBefore
    /\ UrlC \notin ShownBefore
    /\ fname = <<"a">>
    /\ GetCount(reqs) = 0
    /\ img.files[fname] \in ImageBytes

\* the exceptions raised before a URL is chosen
ErrorsBeforeSelection ==
    {"ValueError", "couldn't logon", "couldn't fetch image urls", "IndexError"}

\* C18: the lines a run has added to history.txt follow the lines it found
\* and are URLs of the list the tag query returned in that run; until the
\* URL is recorded, and in a run that failed before choosing one (argument
\* check, login, tag query, empty list), history.txt is as the run found it;
\* a run that failed later (download, rendering) has added exactly one line,
\* the chosen URL.
C18_HistoryOnlyCandidates ==
    LET before == HistoryLines(pre.historyFile)
        now == HistoryLines(historyFile)
    IN  /\ IsPrefix(before, now)
        /\ \A i \in Len(before) + 1 .. Len(now) : now[i] \in Range(urls)
        /\ pc \in {"loggedOn", "logOn", "tagUrls", "select", "record"} =>
             historyFile = pre.historyFile
        /\ (pc = "failed" /\ err \in ErrorsBeforeSelection) =>
             (url = NoUrl /\ historyFile = pre.historyFile)
        /\ (pc = "failed" /\ err \notin ErrorsBeforeSelection) =>
             (url \in Range(urls) /\ now = Append(before, url))

C18_Witness ==
    /\ pc = "failed"
    /\ err = "couldn't logon"
    /\ HistoryLines(pre.historyFile) # <<>>
    /\ historyFile = pre.historyFile
    /\ Range(HistoryLines(historyFile)) \subseteq URLS

====
